---- MODULE Spec2Model ----
(***************************************************************************)
(* Model of the goseek wire codec, src/pkg/slsk/protocol.go.               *)
(*                                                                         *)
(* Representation.                                                         *)
(*   - A Go integer of width w bits is a little-endian sequence of w/16    *)
(*     limbs, each in 0..65535, two's complement: int32 has 2 limbs, int64 *)
(*     and int (64-bit build) have 4.  Conversions between widths truncate *)
(*     or sign-extend exactly as Go's do, and arithmetic wraps.            *)
(*   - A byte string (string, the contents of a []byte, bytes.Buffer or    *)
(*     io.Reader) is a sequence of runs [b |-> byte, n |-> count], count   *)
(*     an int > 0, adjacent runs holding different bytes.  This is the     *)
(*     byte string itself, written compactly, so that strings as long as   *)
(*     maxStringLen + 1 and payloads of 2 GiB are ordinary values.         *)
(*   - A []byte is [nil |-> BOOLEAN, data |-> byte string]: Go tells a nil *)
(*     slice from an empty one, bytes.Equal does not.                      *)
(*   - An error is a string: "nil", or the text of the error.              *)
(***************************************************************************)
EXTENDS Integers, Sequences, FiniteSets, TLC

\* ------------------------------------------------------------------------
\* Bounds of the model
\* ------------------------------------------------------------------------
MaxSmall == 2
MaxFrames == 2
MaxCut == 14

\* ------------------------------------------------------------------------
\* Evaluation: v is evaluated once and its value handed to F.
\* ------------------------------------------------------------------------
With(v, F(_)) == CHOOSE y \in {F(x) : x \in {v}} : TRUE
With2(v, w, F(_, _)) == CHOOSE y \in {F(x, z) : x \in {v}, z \in {w}} : TRUE

\* ------------------------------------------------------------------------
\* Go integers
\* ------------------------------------------------------------------------
Base == 256 * 256

\* The k-limb two's complement word of the (small) integer n.
W(n, k) ==
  [i \in 1..k |-> IF i = 1 THEN n % Base
                  ELSE IF i = 2 THEN (n \div Base) % Base
                  ELSE IF n < 0 THEN Base - 1 ELSE 0]

Int32(n) == W(n, 2)
Int64(n) == W(n, 4)
GoInt(n) == W(n, 4)

\* a + b + c on words of one width, the carry out of the top limb dropped.
RECURSIVE AddC(_, _, _)
AddC(a, b, c) ==
  IF a = <<>> THEN <<>>
  ELSE With(Head(a) + Head(b) + c,
            LAMBDA s : <<s % Base>> \o AddC(Tail(a), Tail(b), s \div Base))

Add(a, b) == With2(a, b, LAMBDA x, y : AddC(x, y, 0))
Sub(a, b) ==
  With2(a, b, LAMBDA x, y : AddC(x, [i \in DOMAIN y |-> Base - 1 - y[i]], 1))

IsNeg(a) == a[Len(a)] >= Base \div 2

\* a < b, signed, on words of one width.
Lt(a, b) ==
  With2(a, b, LAMBDA x, y :
    IF IsNeg(x) # IsNeg(y) THEN IsNeg(x)
    ELSE \E i \in DOMAIN x :
           /\ x[i] < y[i]
           /\ \A j \in (i + 1)..Len(x) : x[j] = y[j])

Gt(a, b) == Lt(b, a)

\* int32(x) of an int or int64: the low 32 bits.
ToInt32(a) == SubSeq(a, 1, 2)
\* int64(x) of an int32: sign extension; of an int: x itself.
ToInt64(a) ==
  With(a, LAMBDA x :
    IF Len(x) = 4 THEN x
    ELSE x \o (IF IsNeg(x) THEN <<Base - 1, Base - 1>> ELSE <<0, 0>>))
\* int(x) of an int32.
ToInt(a) == ToInt64(a)

\* ------------------------------------------------------------------------
\* Byte strings
\* ------------------------------------------------------------------------
\* s followed by t.
Cat(s, t) ==
  With2(s, t, LAMBDA x, y :
    IF x = <<>> THEN y
    ELSE IF y = <<>> THEN x
    ELSE IF x[Len(x)].b = y[1].b
         THEN SubSeq(x, 1, Len(x) - 1)
                \o <<[b |-> y[1].b, n |-> Add(x[Len(x)].n, y[1].n)]>>
                \o Tail(y)
         ELSE x \o y)

\* n bytes b.
Rep(b, n) == With(n, LAMBDA k : IF k = GoInt(0) THEN <<>> ELSE <<[b |-> b, n |-> k]>>)

\* The byte string of the bytes bs.
RECURSIVE Lit(_)
Lit(bs) ==
  With(bs, LAMBDA q :
    IF q = <<>> THEN <<>> ELSE Cat(Rep(Head(q), GoInt(1)), Lit(Tail(q))))

\* len(s)
RECURSIVE BLen(_)
BLen(s) ==
  With(s, LAMBDA x : IF x = <<>> THEN GoInt(0) ELSE Add(x[1].n, BLen(Tail(x))))

\* The first n bytes of s (all of s when it is shorter), n >= 0.
RECURSIVE Take(_, _)
Take(s, n) ==
  With2(s, n, LAMBDA x, k :
    IF x = <<>> \/ k = GoInt(0) THEN <<>>
    ELSE IF Lt(k, x[1].n) THEN <<[b |-> x[1].b, n |-> k]>>
    ELSE Cat(<<x[1]>>, Take(Tail(x), Sub(k, x[1].n))))

\* s without its first n bytes (empty when it is shorter), n >= 0.
RECURSIVE Drop(_, _)
Drop(s, n) ==
  With2(s, n, LAMBDA x, k :
    IF x = <<>> \/ k = GoInt(0) THEN x
    ELSE IF Lt(k, x[1].n)
         THEN <<[b |-> x[1].b, n |-> Sub(x[1].n, k)]>> \o Tail(x)
    ELSE Drop(Tail(x), Sub(k, x[1].n)))

\* The bytes of a short byte string, one by one.
RECURSIVE Expand(_)
Expand(s) ==
  With(s, LAMBDA x :
    IF x = <<>> THEN <<>>
    ELSE [i \in 1..x[1].n[1] |-> x[1].b] \o Expand(Tail(x)))

\* []byte values
NilSlice == [nil |-> TRUE, data |-> <<>>]
Slice(d) == [nil |-> FALSE, data |-> d]
\* bytes.Equal: nil and empty are equal.
BytesEqual(a, b) == a.data = b.data

\* ------------------------------------------------------------------------
\* Program constants
\* ------------------------------------------------------------------------
MsgHello == 1
MsgFileAdvert == 21
MsgGetFile == 30
MsgFileChunk == 31
MsgPing == 99
maxStringLen == 50000000
\* The chunk cap, written inline in DecodeFileChunk.
maxChunkLen == 100 * 1024 * 1024

\* ------------------------------------------------------------------------
\* encoding/binary, little endian, and io.ReadFull on the reader
\* ------------------------------------------------------------------------
\* The bytes binary.Write(buf, binary.LittleEndian, a) appends for the word a.
ToLE(a) ==
  With(a, LAMBDA x :
    [i \in 1..(2 * Len(x)) |->
       IF i % 2 = 1 THEN x[(i + 1) \div 2] % 256 ELSE x[i \div 2] \div 256])

\* The word binary.Read(r, binary.LittleEndian, &n) stores for the bytes bs.
FromLE(bs) ==
  With(bs, LAMBDA q : [i \in 1..(Len(q) \div 2) |-> q[2 * i - 1] + 256 * q[2 * i]])

\* io.ReadFull(r, buf) with len(buf) = n > 0 on a reader holding r: io.EOF
\* when nothing is left, io.ErrUnexpectedEOF (all of r consumed) when less
\* than n is left.
ReadFull(r, n) ==
  With2(r, n, LAMBDA x, k :
    IF x = <<>> THEN [data |-> <<>>, err |-> "EOF", r |-> x]
    ELSE IF Lt(BLen(x), k) THEN [data |-> <<>>, err |-> "unexpected EOF", r |-> <<>>]
    ELSE [data |-> Take(x, k), err |-> "nil", r |-> Drop(x, k)])

writeInt32(buf, n) == [buf |-> Cat(buf, Lit(ToLE(n))), err |-> "nil"]

readInt32(r) ==
  With(ReadFull(r, GoInt(4)), LAMBDA f :
    IF f.err # "nil" THEN [n |-> Int32(0), err |-> f.err, r |-> f.r]
    ELSE [n |-> FromLE(Expand(f.data)), err |-> "nil", r |-> f.r])

writeInt64(buf, n) == [buf |-> Cat(buf, Lit(ToLE(n))), err |-> "nil"]

readInt64(r) ==
  With(ReadFull(r, GoInt(8)), LAMBDA f :
    IF f.err # "nil" THEN [n |-> Int64(0), err |-> f.err, r |-> f.r]
    ELSE [n |-> FromLE(Expand(f.data)), err |-> "nil", r |-> f.r])

\* buf.Bytes(): nil for a buffer nothing was written to.
BufBytes(buf) == With(buf, LAMBDA x : IF x = <<>> THEN NilSlice ELSE Slice(x))

\* ------------------------------------------------------------------------
\* Framing
\* ------------------------------------------------------------------------
prefixLength(data) ==
  With(data, LAMBDA d : Slice(Cat(Lit(ToLE(ToInt32(BLen(d.data)))), d.data)))

PackMessage(msg, payload) ==
  With2(Lit(ToLE(msg)), payload, LAMBDA b1, p :
    With(IF Gt(BLen(p.data), GoInt(0)) THEN Cat(b1, p.data) ELSE b1,
         LAMBDA b2 : prefixLength(BufBytes(b2))))

\* What ReadMessage returns on an error.
ReadMessageFails(e, rest, al) ==
  [msg |-> Int32(0), payload |-> NilSlice, err |-> e, r |-> rest, alloc |-> al]

\* ReadMessage with the sign of the length tested in place of remaining < 0.
ReadMessage_LengthSignOnly(r) ==
  With(readInt32(r), LAMBDA l :
    IF l.err # "nil" THEN ReadMessageFails(l.err, l.r, GoInt(0))
    ELSE With(readInt32(l.r), LAMBDA id :
      IF id.err # "nil" THEN ReadMessageFails(id.err, id.r, GoInt(0))
      ELSE With(Sub(ToInt(l.n), GoInt(4)), LAMBDA remaining :
        IF Lt(l.n, Int32(0))
        THEN ReadMessageFails("invalid message length", id.r, GoInt(0))
        ELSE IF Gt(remaining, GoInt(0))
        THEN With(ReadFull(id.r, remaining), LAMBDA f :
               IF f.err # "nil" THEN ReadMessageFails(f.err, f.r, remaining)
               ELSE [msg |-> id.n, payload |-> Slice(f.data),
                     err |-> "nil", r |-> f.r, alloc |-> remaining])
        ELSE [msg |-> id.n, payload |-> NilSlice, err |-> "nil",
              r |-> id.r, alloc |-> GoInt(0)])))

\* The result also carries r, the reader after the call, and alloc, the
\* size handed to make (0 when make was not reached).
ReadMessage(r) ==
  With(readInt32(r), LAMBDA l :
    IF l.err # "nil" THEN ReadMessageFails(l.err, l.r, GoInt(0))
    ELSE With(readInt32(l.r), LAMBDA id :
      IF id.err # "nil" THEN ReadMessageFails(id.err, id.r, GoInt(0))
      ELSE With(Sub(ToInt(l.n), GoInt(4)), LAMBDA remaining :
        IF Lt(remaining, GoInt(0))
        THEN ReadMessageFails("invalid message length", id.r, GoInt(0))
        ELSE IF Gt(remaining, GoInt(0))
        THEN With(ReadFull(id.r, remaining), LAMBDA f :
               IF f.err # "nil" THEN ReadMessageFails(f.err, f.r, remaining)
               ELSE [msg |-> id.n, payload |-> Slice(f.data),
                     err |-> "nil", r |-> f.r, alloc |-> remaining])
        ELSE [msg |-> id.n, payload |-> NilSlice, err |-> "nil",
              r |-> id.r, alloc |-> GoInt(0)])))

\* ------------------------------------------------------------------------
\* Strings
\* ------------------------------------------------------------------------
\* WriteString with the length written before the cap is tested.
WriteString_LengthFirst(buf, s) ==
  With2(buf, s, LAMBDA b, x :
    With(writeInt32(b, ToInt32(BLen(x))), LAMBDA w :
      IF Gt(ToInt64(BLen(x)), Int64(maxStringLen))
      THEN [buf |-> w.buf, err |-> "String too large"]
      ELSE IF w.err # "nil" THEN w
      ELSE [buf |-> Cat(w.buf, x), err |-> "nil"]))

WriteString(buf, s) ==
  With2(buf, s, LAMBDA b, x :
    IF Gt(ToInt64(BLen(x)), Int64(maxStringLen))
    THEN [buf |-> b, err |-> "String too large"]
    ELSE With(writeInt32(b, ToInt32(BLen(x))), LAMBDA w :
           IF w.err # "nil" THEN w
           ELSE [buf |-> Cat(w.buf, x), err |-> "nil"]))

\* ReadString with the cap exclusive: a length of maxStringLen is refused.
ReadString_CapExclusive(r) ==
  With(readInt32(r), LAMBDA l :
    IF l.err # "nil"
    THEN [s |-> <<>>, err |-> l.err, r |-> l.r, alloc |-> GoInt(0)]
    ELSE IF Lt(l.n, Int32(0)) \/ ~Lt(ToInt64(l.n), Int64(maxStringLen))
    THEN [s |-> <<>>, err |-> "invalid string length", r |-> l.r, alloc |-> GoInt(0)]
    ELSE IF l.n = Int32(0)
    THEN [s |-> <<>>, err |-> "nil", r |-> l.r, alloc |-> GoInt(0)]
    ELSE With(ReadFull(l.r, ToInt(l.n)), LAMBDA f :
           IF f.err # "nil"
           THEN [s |-> <<>>, err |-> f.err, r |-> f.r, alloc |-> ToInt(l.n)]
           ELSE [s |-> f.data, err |-> "nil", r |-> f.r, alloc |-> ToInt(l.n)]))

\* The result also carries r, the reader after the call, and alloc, the
\* size handed to make (0 when make was not reached).
ReadString(r) ==
  With(readInt32(r), LAMBDA l :
    IF l.err # "nil"
    THEN [s |-> <<>>, err |-> l.err, r |-> l.r, alloc |-> GoInt(0)]
    ELSE IF Lt(l.n, Int32(0)) \/ Gt(ToInt64(l.n), Int64(maxStringLen))
    THEN [s |-> <<>>, err |-> "invalid string length", r |-> l.r, alloc |-> GoInt(0)]
    ELSE IF l.n = Int32(0)
    THEN [s |-> <<>>, err |-> "nil", r |-> l.r, alloc |-> GoInt(0)]
    ELSE With(ReadFull(l.r, ToInt(l.n)), LAMBDA f :
           IF f.err # "nil"
           THEN [s |-> <<>>, err |-> f.err, r |-> f.r, alloc |-> ToInt(l.n)]
           ELSE [s |-> f.data, err |-> "nil", r |-> f.r, alloc |-> ToInt(l.n)]))

\* ------------------------------------------------------------------------
\* Message encoders and decoders
\* ------------------------------------------------------------------------
\* An encoder returns a []byte and nothing else.  The model returns it as
\* pkt, next to discarded: the errors the encoder assigned to the blank
\* identifier, in the order of the calls.
EncodeHello(username) ==
  With(WriteString(<<>>, username), LAMBDA w :
    [pkt |-> PackMessage(Int32(MsgHello), BufBytes(w.buf)),
     discarded |-> <<w.err>>])

DecodeHello(payload) ==
  ReadString(payload.data)

EncodePing == [pkt |-> PackMessage(Int32(MsgPing), NilSlice), discarded |-> <<>>]

EncodeFileAdvert(fileID, name, size) ==
  With(WriteString(<<>>, fileID), LAMBDA w1 :
    With(WriteString(w1.buf, name), LAMBDA w2 :
      With(writeInt64(w2.buf, size), LAMBDA w3 :
        [pkt |-> PackMessage(Int32(MsgFileAdvert), BufBytes(w3.buf)),
         discarded |-> <<w1.err, w2.err, w3.err>>])))

\* What DecodeFileAdvert returns on an error.
DecodeFileAdvertFails(e, rest) ==
  [fileID |-> <<>>, name |-> <<>>, size |-> Int64(0), err |-> e, r |-> rest]

\* DecodeFileAdvert returning its named results as they stand on an error.
DecodeFileAdvert_BareReturn(payload) ==
  With(ReadString(payload.data), LAMBDA f :
    IF f.err # "nil" THEN DecodeFileAdvertFails(f.err, f.r)
    ELSE With(ReadString(f.r), LAMBDA n :
      IF n.err # "nil"
      THEN [fileID |-> f.s, name |-> <<>>, size |-> Int64(0),
            err |-> n.err, r |-> n.r]
      ELSE With(readInt64(n.r), LAMBDA z :
        IF z.err # "nil"
        THEN [fileID |-> f.s, name |-> n.s, size |-> Int64(0),
              err |-> z.err, r |-> z.r]
        ELSE [fileID |-> f.s, name |-> n.s, size |-> z.n,
              err |-> "nil", r |-> z.r])))

DecodeFileAdvert(payload) ==
  With(ReadString(payload.data), LAMBDA f :
    IF f.err # "nil" THEN DecodeFileAdvertFails(f.err, f.r)
    ELSE With(ReadString(f.r), LAMBDA n :
      IF n.err # "nil" THEN DecodeFileAdvertFails(n.err, n.r)
      ELSE With(readInt64(n.r), LAMBDA z :
        IF z.err # "nil" THEN DecodeFileAdvertFails(z.err, z.r)
        ELSE [fileID |-> f.s, name |-> n.s, size |-> z.n,
              err |-> "nil", r |-> z.r])))

\* EncodeGetFile with fileID written before transferID.
EncodeGetFile_FieldsSwapped(transferID, fileID, offset) ==
  With(WriteString(<<>>, fileID), LAMBDA w1 :
    With(WriteString(w1.buf, transferID), LAMBDA w2 :
      With(writeInt64(w2.buf, offset), LAMBDA w3 :
        [pkt |-> PackMessage(Int32(MsgGetFile), BufBytes(w3.buf)),
         discarded |-> <<w1.err, w2.err, w3.err>>])))

EncodeGetFile(transferID, fileID, offset) ==
  With(WriteString(<<>>, transferID), LAMBDA w1 :
    With(WriteString(w1.buf, fileID), LAMBDA w2 :
      With(writeInt64(w2.buf, offset), LAMBDA w3 :
        [pkt |-> PackMessage(Int32(MsgGetFile), BufBytes(w3.buf)),
         discarded |-> <<w1.err, w2.err, w3.err>>])))

\* What DecodeGetFile returns on an error.
DecodeGetFileFails(e, rest) ==
  [transferID |-> <<>>, fileID |-> <<>>, offset |-> Int64(0), err |-> e, r |-> rest]

DecodeGetFile(payload) ==
  With(ReadString(payload.data), LAMBDA t :
    IF t.err # "nil" THEN DecodeGetFileFails(t.err, t.r)
    ELSE With(ReadString(t.r), LAMBDA f :
      IF f.err # "nil" THEN DecodeGetFileFails(f.err, f.r)
      ELSE With(readInt64(f.r), LAMBDA o :
        IF o.err # "nil" THEN DecodeGetFileFails(o.err, o.r)
        ELSE [transferID |-> t.s, fileID |-> f.s, offset |-> o.n,
              err |-> "nil", r |-> o.r])))

EncodeFileChunk(transferID, offset, chunk) ==
  With(WriteString(<<>>, transferID), LAMBDA w1 :
    With(writeInt64(w1.buf, offset), LAMBDA w2 :
      With(writeInt32(w2.buf, ToInt32(BLen(chunk.data))), LAMBDA w3 :
        With(IF Gt(BLen(chunk.data), GoInt(0)) THEN Cat(w3.buf, chunk.data)
             ELSE w3.buf,
             LAMBDA b4 :
               [pkt |-> PackMessage(Int32(MsgFileChunk), BufBytes(b4)),
                discarded |-> <<w1.err, w2.err, w3.err>>]))))

\* What DecodeFileChunk returns on an error.
DecodeFileChunkFails(e, rest, al) ==
  [transferID |-> <<>>, offset |-> Int64(0), chunk |-> NilSlice,
   err |-> e, r |-> rest, alloc |-> al]

\* DecodeFileChunk with the upper bound on the chunk length left out.
DecodeFileChunk_NoUpperBound(payload) ==
  With(ReadString(payload.data), LAMBDA t :
    IF t.err # "nil" THEN DecodeFileChunkFails(t.err, t.r, GoInt(0))
    ELSE With(readInt64(t.r), LAMBDA o :
      IF o.err # "nil" THEN DecodeFileChunkFails(o.err, o.r, GoInt(0))
      ELSE With(readInt32(o.r), LAMBDA c :
        IF c.err # "nil" THEN DecodeFileChunkFails(c.err, c.r, GoInt(0))
        ELSE IF Lt(c.n, Int32(0))
        THEN DecodeFileChunkFails("invalid chunk length", c.r, GoInt(0))
        ELSE IF c.n = Int32(0)
        THEN [transferID |-> t.s, offset |-> o.n, chunk |-> NilSlice,
              err |-> "nil", r |-> c.r, alloc |-> GoInt(0)]
        ELSE With(ReadFull(c.r, ToInt(c.n)), LAMBDA f :
               IF f.err # "nil" THEN DecodeFileChunkFails(f.err, f.r, ToInt(c.n))
               ELSE [transferID |-> t.s, offset |-> o.n,
                     chunk |-> Slice(f.data), err |-> "nil",
                     r |-> f.r, alloc |-> ToInt(c.n)]))))

\* alloc is the size handed to make for the chunk (0 when make was not
\* reached), r the reader after the call.
DecodeFileChunk(payload) ==
  With(ReadString(payload.data), LAMBDA t :
    IF t.err # "nil" THEN DecodeFileChunkFails(t.err, t.r, GoInt(0))
    ELSE With(readInt64(t.r), LAMBDA o :
      IF o.err # "nil" THEN DecodeFileChunkFails(o.err, o.r, GoInt(0))
      ELSE With(readInt32(o.r), LAMBDA c :
        IF c.err # "nil" THEN DecodeFileChunkFails(c.err, c.r, GoInt(0))
        ELSE IF Lt(c.n, Int32(0)) \/ Gt(c.n, Int32(maxChunkLen))
        THEN DecodeFileChunkFails("invalid chunk length", c.r, GoInt(0))
        ELSE IF c.n = Int32(0)
        THEN [transferID |-> t.s, offset |-> o.n, chunk |-> NilSlice,
              err |-> "nil", r |-> c.r, alloc |-> GoInt(0)]
        ELSE With(ReadFull(c.r, ToInt(c.n)), LAMBDA f :
               IF f.err # "nil" THEN DecodeFileChunkFails(f.err, f.r, ToInt(c.n))
               ELSE [transferID |-> t.s, offset |-> o.n,
                     chunk |-> Slice(f.data), err |-> "nil",
                     r |-> f.r, alloc |-> ToInt(c.n)]))))

\* The kinds of error of the codec.
IsTruncatedRead(e) == e \in {"EOF", "unexpected EOF"}
IsInvalidLength(e) ==
  e \in {"invalid message length", "invalid string length", "invalid chunk length"}
IsStringTooLarge(e) == e = "String too large"

\* ------------------------------------------------------------------------
\* Inputs
\* ------------------------------------------------------------------------
ByteVals == {0, 97}

SmallStrings == {Lit(q) : q \in UNION {[1..k -> ByteVals] : k \in 0..MaxSmall}}

\* Strings WriteString accepts: up to maxStringLen bytes.
Strings ==
  SmallStrings \cup
    {Rep(97, GoInt(maxStringLen)),
     Cat(Lit(<<0>>), Rep(97, GoInt(maxStringLen - 1)))}

\* Strings over the cap: maxStringLen + 1, 2^31 - 1 and 2^32 + 5 bytes.
LongStrings ==
  {Rep(97, GoInt(maxStringLen + 1)), Rep(0, GoInt(2147483647)), Rep(0, <<5, 0, 1, 0>>)}

AllStrings == Strings \cup LongStrings

\* MsgType values: declared ones, undeclared ones, the extremes of int32.
MsgTypes ==
  {Int32(MsgHello), Int32(MsgPing), Int32(7), Int32(0), Int32(-1),
   <<0, 32768>>, <<65535, 32767>>}

Int64s == {Int64(0), Int64(42), Int64(-1), <<1, 2, 3, 4>>, <<0, 0, 0, 32768>>}

SmallSlices == {NilSlice} \cup {Slice(s) : s \in SmallStrings}

\* Payloads of 2^31 - 5 bytes (the longest whose frame length fits int32),
\* 2^31 - 4, 2^32 - 4, 2^32 and 2^32 + 1 bytes.
HugePayloads ==
  {Slice(Rep(0, GoInt(2147483643))), Slice(Rep(0, GoInt(2147483644))),
   Slice(Rep(97, <<65532, 65535, 0, 0>>)), Slice(Rep(97, <<0, 0, 1, 0>>)),
   Slice(Rep(97, <<1, 0, 1, 0>>))}

Payloads == SmallSlices \cup HugePayloads

Chunks ==
  SmallSlices \cup
    {Slice(Rep(97, GoInt(maxChunkLen))), Slice(Rep(97, GoInt(maxChunkLen + 1)))}

\* bytes.Buffer contents WriteString is called on.
Bufs == {<<>>, Lit(<<7, 0>>)}

\* The payload of a frame PackMessage built: what follows its 8 header bytes.
PayloadOf(pkt) == Drop(pkt.data, GoInt(8))

\* Streams that end early: a complete encoding e cut after c < len(e) bytes,
\* c up to MaxCut bytes from either end.
CutPoints(e) ==
  {c \in {GoInt(k) : k \in 0..MaxCut} \cup {Sub(BLen(e), GoInt(k)) : k \in 1..MaxCut} :
     ~IsNeg(c) /\ Lt(c, BLen(e))}

Cuts(e, kind) ==
  {[r |-> Take(e, c), kind |-> kind, decl |-> Int32(0), tail |-> <<>>] :
     c \in CutPoints(e)}

CutsOfAll(es, kind) == UNION {Cuts(e, kind) : e \in es}

FewStrings == {<<>>, Lit(<<0, 97>>), Rep(97, GoInt(maxStringLen))}
FewInt64s == {Int64(42), <<0, 0, 0, 32768>>}
FewChunks == {NilSlice, Slice(Lit(<<97, 0, 0>>)), Slice(Rep(97, GoInt(maxChunkLen)))}

CutFrames ==
  CutsOfAll({PackMessage(m, p).data :
               m \in {Int32(MsgHello), Int32(-1)},
               p \in SmallSlices \cup {Slice(Rep(97, GoInt(maxStringLen)))}},
            "cut frame")

CutStrings ==
  CutsOfAll({WriteString(<<>>, s).buf : s \in Strings}, "cut string")

CutAdverts ==
  CutsOfAll({PayloadOf(EncodeFileAdvert(f, n, z).pkt) :
               f \in FewStrings, n \in FewStrings, z \in FewInt64s},
            "cut advert")

CutGetFiles ==
  CutsOfAll({PayloadOf(EncodeGetFile(x, f, o).pkt) :
               x \in FewStrings, f \in FewStrings, o \in FewInt64s},
            "cut getfile")

CutChunks ==
  CutsOfAll({PayloadOf(EncodeFileChunk(x, o, c).pkt) :
               x \in FewStrings, o \in FewInt64s, c \in FewChunks},
            "cut chunk")

\* Streams that open with a chosen length field: the int32 decl, then tail.
\* The tails are the prefixes of a type tag and 8 more bytes, and runs long
\* enough to hold every length declared.
Lens32 ==
  {<<0, 32768>>, Int32(-1), Int32(0), Int32(1), Int32(3), Int32(4), Int32(5),
   Int32(12), Int32(maxStringLen), Int32(maxStringLen + 1), Int32(maxChunkLen),
   Int32(maxChunkLen + 1), <<65535, 32767>>}

Tails ==
  {Take(Cat(Lit(<<1, 0, 0, 0>>), Rep(97, GoInt(8))), GoInt(k)) : k \in 0..12}
    \cup {Rep(97, GoInt(maxChunkLen + 1)), Rep(0, GoInt(2147483647))}

LengthStreams ==
  {[r |-> Cat(Lit(ToLE(l)), x), kind |-> "length", decl |-> l, tail |-> x] :
     l \in Lens32, x \in Tails}

\* FileChunk payloads with a chosen chunkLength field: transferID, offset,
\* the int32 decl, then tail.
ChunkLengthPayloads ==
  {[r |-> Cat(writeInt64(WriteString(<<>>, x).buf, Int64(42)).buf,
              Cat(Lit(ToLE(l)), y)),
    kind |-> "chunk length", decl |-> l, tail |-> y] :
     x \in {<<>>, Lit(<<97>>)}, l \in Lens32, y \in Tails}

RawInputs ==
  CutFrames \cup CutStrings \cup CutAdverts \cup CutGetFiles \cup CutChunks
    \cup LengthStreams \cup ChunkLengthPayloads

\* ------------------------------------------------------------------------
\* State: a call of the codec and its arguments (arg), whether it has been
\* made (op: "init" before, the name of the call after) and what it
\* returned (res); and a byte stream (wire) with the frames written to it
\* (sent) and the results of the reads made from it (got).
\* ------------------------------------------------------------------------
VARIABLES op, arg, res, wire, sent, got
vars == <<op, arg, res, wire, sent, got>>

RawCalls ==
  {"ReadMessage", "ReadString", "DecodeHello", "DecodeFileAdvert",
   "DecodeGetFile", "DecodeFileChunk"}

Calls ==
  {[call |-> "PackAndRead", msg |-> m, payload |-> p] :
     m \in MsgTypes, p \in Payloads}
  \cup {[call |-> "StringTrip", buf |-> b, s |-> s] : b \in Bufs, s \in AllStrings}
  \cup {[call |-> "HelloTrip", username |-> u] : u \in AllStrings}
  \cup {[call |-> "PingTrip"]}
  \cup {[call |-> "FileAdvertTrip", fileID |-> f, name |-> n, size |-> z] :
          f \in AllStrings, n \in AllStrings, z \in Int64s}
  \cup {[call |-> "GetFileTrip", transferID |-> x, fileID |-> f, offset |-> o] :
          x \in AllStrings, f \in AllStrings, o \in Int64s}
  \cup {[call |-> "FileChunkTrip", transferID |-> x, offset |-> o, chunk |-> c] :
          x \in AllStrings, o \in Int64s, c \in Chunks}
  \cup {[call |-> c, in |-> x] : c \in RawCalls, x \in RawInputs}

Init ==
  /\ op = "init"
  /\ arg \in Calls
  /\ res = <<>>
  /\ wire = <<>>
  /\ sent = <<>>
  /\ got = <<>>

\* The call arg names is made, once.
Pending(c) == op = "init" /\ arg.call = c

Returns(c, r) ==
  /\ op' = c
  /\ res' = r
  /\ UNCHANGED <<arg, wire, sent, got>>

\* roundTrip of the tests: PackMessage, then ReadMessage on the packet.
PackAndRead ==
  /\ Pending("PackAndRead")
  /\ \E pkt \in {PackMessage(arg.msg, arg.payload)} :
       \E rd \in {ReadMessage(pkt.data)} :
         Returns("PackAndRead", [pkt |-> pkt, rd |-> rd])

\* TestStringEncoding: WriteString into a buffer, then ReadString on the
\* buffer's bytes.
StringTrip ==
  /\ Pending("StringTrip")
  /\ \E w \in {WriteString(arg.buf, arg.s)} :
       \E rd \in {ReadString(w.buf)} :
         Returns("StringTrip", [w |-> w, rd |-> rd])

\* TestHelloEncoding and its like: encode, ReadMessage, decode the payload.
HelloTrip ==
  /\ Pending("HelloTrip")
  /\ \E enc \in {EncodeHello(arg.username)} :
       \E rd \in {ReadMessage(enc.pkt.data)} :
         \E dec \in {DecodeHello(rd.payload)} :
           Returns("HelloTrip", [enc |-> enc, rd |-> rd, dec |-> dec])

PingTrip ==
  /\ Pending("PingTrip")
  /\ \E enc \in {EncodePing} :
       \E rd \in {ReadMessage(enc.pkt.data)} :
         Returns("PingTrip", [enc |-> enc, rd |-> rd])

FileAdvertTrip ==
  /\ Pending("FileAdvertTrip")
  /\ \E enc \in {EncodeFileAdvert(arg.fileID, arg.name, arg.size)} :
       \E rd \in {ReadMessage(enc.pkt.data)} :
         \E dec \in {DecodeFileAdvert(rd.payload)} :
           Returns("FileAdvertTrip", [enc |-> enc, rd |-> rd, dec |-> dec])

GetFileTrip ==
  /\ Pending("GetFileTrip")
  /\ \E enc \in {EncodeGetFile(arg.transferID, arg.fileID, arg.offset)} :
       \E rd \in {ReadMessage(enc.pkt.data)} :
         \E dec \in {DecodeGetFile(rd.payload)} :
           Returns("GetFileTrip", [enc |-> enc, rd |-> rd, dec |-> dec])

FileChunkTrip ==
  /\ Pending("FileChunkTrip")
  /\ \E enc \in {EncodeFileChunk(arg.transferID, arg.offset, arg.chunk)} :
       \E rd \in {ReadMessage(enc.pkt.data)} :
         \E dec \in {DecodeFileChunk(rd.payload)} :
           Returns("FileChunkTrip", [enc |-> enc, rd |-> rd, dec |-> dec])

\* The readers and decoders on bytes a peer chose.
CallReadMessage ==
  /\ Pending("ReadMessage")
  /\ Returns("ReadMessage", ReadMessage(arg.in.r))

CallReadString ==
  /\ Pending("ReadString")
  /\ Returns("ReadString", ReadString(arg.in.r))

CallDecodeHello ==
  /\ Pending("DecodeHello")
  /\ Returns("DecodeHello", DecodeHello(Slice(arg.in.r)))

CallDecodeFileAdvert ==
  /\ Pending("DecodeFileAdvert")
  /\ Returns("DecodeFileAdvert", DecodeFileAdvert(Slice(arg.in.r)))

CallDecodeGetFile ==
  /\ Pending("DecodeGetFile")
  /\ Returns("DecodeGetFile", DecodeGetFile(Slice(arg.in.r)))

CallDecodeFileChunk ==
  /\ Pending("DecodeFileChunk")
  /\ Returns("DecodeFileChunk", DecodeFileChunk(Slice(arg.in.r)))

Next ==
  \/ PackAndRead
  \/ StringTrip
  \/ HelloTrip
  \/ PingTrip
  \/ FileAdvertTrip
  \/ GetFileTrip
  \/ FileChunkTrip
  \/ CallReadMessage
  \/ CallReadString
  \/ CallDecodeHello
  \/ CallDecodeFileAdvert
  \/ CallDecodeGetFile
  \/ CallDecodeFileChunk

Spec == Init /\ [][Next]_vars

\* ------------------------------------------------------------------------
\* A stream of frames: a writer appends PackMessage outputs to the stream,
\* then a reader calls ReadMessage on it again and again.
\* ------------------------------------------------------------------------
StreamPayloads ==
  {NilSlice, Slice(Lit(<<97>>)), Slice(Lit(<<0, 0, 0, 0>>)),
   Slice(Rep(97, GoInt(maxStringLen))), Slice(Rep(0, GoInt(2147483644)))}

StreamMsgTypes == {Int32(MsgHello), Int32(MsgPing), Int32(-1)}

Send ==
  \E m \in StreamMsgTypes, p \in StreamPayloads :
    /\ got = <<>>
    /\ Len(sent) < MaxFrames
    /\ wire' = Cat(wire, PackMessage(m, p).data)
    /\ sent' = Append(sent, [msg |-> m, payload |-> p])
    /\ UNCHANGED <<op, arg, res, got>>

Recv ==
  /\ Len(got) <= Len(sent)
  /\ \E rd \in {ReadMessage(wire)} :
       /\ wire' = rd.r
       /\ got' = Append(got, [msg |-> rd.msg, payload |-> rd.payload,
                              err |-> rd.err, before |-> wire, after |-> rd.r])
  /\ UNCHANGED <<op, arg, res, sent>>

InitStream ==
  /\ op = "init"
  /\ arg = <<>>
  /\ res = <<>>
  /\ wire = <<>>
  /\ sent = <<>>
  /\ got = <<>>

NextStream == Send \/ Recv

SpecStream == InitStream /\ [][NextStream]_vars

\* ------------------------------------------------------------------------
\* Properties
\* ------------------------------------------------------------------------
\* len(s) <= maxStringLen, len(c) <= 100 MiB.
FitsString(s) == ~Gt(BLen(s), GoInt(maxStringLen))
FitsChunk(c) == ~Gt(BLen(c.data), GoInt(maxChunkLen))

\* A stream that holds the 4 bytes of a length field, and the int32 they spell.
HasLengthField(r) == ~Lt(BLen(r), GoInt(4))
DeclaredLength(r) == FromLE(Expand(Take(r, GoInt(4))))

EncoderCalls == {"HelloTrip", "FileAdvertTrip", "GetFileTrip", "FileChunkTrip"}

\* C1: frame round trip.  For every MsgType m and every payload p, ReadMessage
\* on PackMessage(m, p) succeeds and returns m and a payload equal to p byte
\* for byte.
C1_FrameRoundTrip ==
  op = "PackAndRead" =>
    /\ res.rd.err = "nil"
    /\ res.rd.msg = arg.msg
    /\ BytesEqual(res.rd.payload, arg.payload)

\* C2: per-type fidelity.  For Hello, FileAdvert, GetFile and FileChunk, with
\* every string within maxStringLen and every chunk within 100 MiB,
\* ReadMessage on the encoder's output returns the kind's type tag and a
\* payload the decoder turns back into the original fields, in order; an
\* empty chunk comes back empty, with no error.
C2_PerTypeFidelity ==
  /\ op = "HelloTrip" /\ FitsString(arg.username) =>
       /\ res.rd.err = "nil" /\ res.rd.msg = Int32(MsgHello)
       /\ res.dec.err = "nil"
       /\ res.dec.s = arg.username
  /\ op = "FileAdvertTrip" /\ FitsString(arg.fileID) /\ FitsString(arg.name) =>
       /\ res.rd.err = "nil" /\ res.rd.msg = Int32(MsgFileAdvert)
       /\ res.dec.err = "nil"
       /\ res.dec.fileID = arg.fileID
       /\ res.dec.name = arg.name
       /\ res.dec.size = arg.size
  /\ op = "GetFileTrip" /\ FitsString(arg.transferID) /\ FitsString(arg.fileID) =>
       /\ res.rd.err = "nil" /\ res.rd.msg = Int32(MsgGetFile)
       /\ res.dec.err = "nil"
       /\ res.dec.transferID = arg.transferID
       /\ res.dec.fileID = arg.fileID
       /\ res.dec.offset = arg.offset
  /\ op = "FileChunkTrip" /\ FitsString(arg.transferID) /\ FitsChunk(arg.chunk) =>
       /\ res.rd.err = "nil" /\ res.rd.msg = Int32(MsgFileChunk)
       /\ res.dec.err = "nil"
       /\ res.dec.transferID = arg.transferID
       /\ res.dec.offset = arg.offset
       /\ BytesEqual(res.dec.chunk, arg.chunk)

\* C2, witness: a FileChunk with a transferID of maxStringLen bytes and a
\* chunk of 100 MiB went through encoder, ReadMessage and decoder.
C2_Witness ==
  /\ op = "FileChunkTrip"
  /\ arg.transferID = Rep(97, GoInt(maxStringLen))
  /\ arg.chunk = Slice(Rep(97, GoInt(maxChunkLen)))
  /\ res.dec.err = "nil"
  /\ res.dec.chunk = arg.chunk

\* C3, as claimed: whenever the declared frame length L is below 4,
\* ReadMessage fails with InvalidLength, whatever follows the length field.
C3_ShortLengthIsInvalidLength ==
  op = "ReadMessage" /\ HasLengthField(arg.in.r)
    /\ Lt(DeclaredLength(arg.in.r), Int32(4)) =>
      IsInvalidLength(res.err)

\* C3, amended: whenever the declared frame length L is below 4, ReadMessage
\* fails and returns no message: with InvalidLength when the 4 bytes of a
\* type tag follow the length field, with a truncated read when fewer do
\* (the tag is read before the length is checked).
C3_ShortLengthFails ==
  op = "ReadMessage" /\ HasLengthField(arg.in.r)
    /\ Lt(DeclaredLength(arg.in.r), Int32(4)) =>
      /\ res.msg = Int32(0)
      /\ res.payload = NilSlice
      /\ IF Lt(BLen(arg.in.r), GoInt(8)) THEN IsTruncatedRead(res.err)
         ELSE IsInvalidLength(res.err)

\* C3, witness: ReadMessage met the most negative length with a tag and
\* more behind it, and refused it.
C3_Witness ==
  /\ op = "ReadMessage"
  /\ arg.in.kind = "length"
  /\ arg.in.decl = <<0, 32768>>
  /\ arg.in.tail = Cat(Lit(<<1, 0, 0, 0>>), Rep(97, GoInt(8)))
  /\ IsInvalidLength(res.err)

\* C4: every error an encoder meets in the primitive layer is returned to
\* its caller: none is dropped.
C4_EncodersReturnErrors ==
  op \in EncoderCalls =>
    \A i \in DOMAIN res.enc.discarded : res.enc.discarded[i] = "nil"

\* C5: chunk bound.  A FileChunk payload whose chunkLength field is negative
\* or above 104,857,600 makes DecodeFileChunk fail with InvalidLength and
\* return no transferID, offset or chunk, before it allocates the chunk or
\* reads a byte of it, however many bytes follow the field.
C5_ChunkBound ==
  op = "DecodeFileChunk" /\ arg.in.kind = "chunk length"
    /\ (Lt(arg.in.decl, Int32(0)) \/ Gt(arg.in.decl, Int32(maxChunkLen))) =>
      /\ IsInvalidLength(res.err)
      /\ res.transferID = <<>>
      /\ res.offset = Int64(0)
      /\ res.chunk = NilSlice
      /\ res.alloc = GoInt(0)
      /\ res.r = arg.in.tail

\* C5, witness: a chunkLength of 100 MiB + 1 with that many bytes behind it
\* was refused.
C5_Witness ==
  /\ op = "DecodeFileChunk"
  /\ arg.in.kind = "chunk length"
  /\ arg.in.decl = Int32(maxChunkLen + 1)
  /\ arg.in.tail = Rep(97, GoInt(maxChunkLen + 1))
  /\ IsInvalidLength(res.err)

\* C6: decoding is all or nothing.  ReadMessage, ReadString and every
\* decoder return, with an error, the zero value of every result; on an
\* input that ends before the bytes it declares or requires they return a
\* truncated read; and a success holds as many bytes as were declared.
C6_AllOrNothing ==
  /\ op = "ReadMessage" =>
       /\ res.err # "nil" => res.msg = Int32(0) /\ res.payload = NilSlice
       /\ arg.in.kind = "cut frame" => IsTruncatedRead(res.err)
       /\ res.err = "nil" =>
            BLen(res.payload.data) = Sub(ToInt(DeclaredLength(arg.in.r)), GoInt(4))
  /\ op \in {"ReadString", "DecodeHello"} =>
       /\ res.err # "nil" => res.s = <<>>
       /\ arg.in.kind = "cut string" => IsTruncatedRead(res.err)
       /\ res.err = "nil" => BLen(res.s) = ToInt(DeclaredLength(arg.in.r))
  /\ op = "DecodeFileAdvert" =>
       /\ res.err # "nil" =>
            res.fileID = <<>> /\ res.name = <<>> /\ res.size = Int64(0)
       /\ arg.in.kind = "cut advert" => IsTruncatedRead(res.err)
  /\ op = "DecodeGetFile" =>
       /\ res.err # "nil" =>
            res.transferID = <<>> /\ res.fileID = <<>> /\ res.offset = Int64(0)
       /\ arg.in.kind = "cut getfile" => IsTruncatedRead(res.err)
  /\ op = "DecodeFileChunk" =>
       /\ res.err # "nil" =>
            res.transferID = <<>> /\ res.offset = Int64(0) /\ res.chunk = NilSlice
       /\ arg.in.kind = "cut chunk" => IsTruncatedRead(res.err)
       /\ arg.in.kind = "chunk length" /\ res.err = "nil" =>
            BLen(res.chunk.data) = ToInt(arg.in.decl)

\* C6, witness: a FileChunk payload that ends inside its chunk, the
\* transferID and the offset already read, was refused.
C6_Witness ==
  /\ op = "DecodeFileChunk"
  /\ arg.in.kind = "cut chunk"
  /\ res.err = "unexpected EOF"
  /\ Gt(res.alloc, GoInt(0))
  /\ res.transferID = <<>>

\* C7: string round trip.  On an empty buffer WriteString accepts every
\* string of at most maxStringLen bytes and ReadString on the bytes written
\* returns that string; WriteString refuses every longer string with
\* StringTooLarge.
C7_StringRoundTrip ==
  op = "StringTrip" /\ arg.buf = <<>> =>
    IF FitsString(arg.s)
    THEN /\ res.w.err = "nil"
         /\ res.rd.err = "nil"
         /\ res.rd.s = arg.s
         /\ res.rd.r = <<>>
    ELSE IsStringTooLarge(res.w.err)

\* C7, witness: a string of exactly maxStringLen bytes was written and read
\* back.
C7_Witness ==
  /\ op = "StringTrip"
  /\ arg.buf = <<>>
  /\ arg.s = Cat(Lit(<<0>>), Rep(97, GoInt(maxStringLen - 1)))
  /\ res.rd.err = "nil"
  /\ res.rd.s = arg.s

\* C8: the string cap has no side effect.  WriteString with a string over
\* maxStringLen returns its error and leaves the buffer as it was; ReadString
\* on a length field that is negative or over maxStringLen fails with
\* InvalidLength having consumed those 4 bytes only, and allocates nothing.
C8_CapWithoutSideEffects ==
  /\ op = "StringTrip" /\ ~FitsString(arg.s) =>
       /\ IsStringTooLarge(res.w.err)
       /\ res.w.buf = arg.buf
  /\ op = "ReadString" /\ HasLengthField(arg.in.r)
       /\ (\/ Lt(DeclaredLength(arg.in.r), Int32(0))
           \/ Gt(DeclaredLength(arg.in.r), Int32(maxStringLen))) =>
       /\ IsInvalidLength(res.err)
       /\ res.s = <<>>
       /\ res.alloc = GoInt(0)
       /\ res.r = Drop(arg.in.r, GoInt(4))
       /\ arg.in.kind = "length" => res.r = arg.in.tail

\* C8, witness: ReadString met a length of maxStringLen + 1 with more than
\* that many bytes behind it, and left them all in the reader.
C8_Witness ==
  /\ op = "ReadString"
  /\ arg.in.kind = "length"
  /\ arg.in.decl = Int32(maxStringLen + 1)
  /\ arg.in.tail = Rep(97, GoInt(maxChunkLen + 1))
  /\ IsInvalidLength(res.err)
  /\ res.r = arg.in.tail

\* C9: frame boundaries.  A successful ReadMessage consumes the 4 + L bytes
\* of its frame and no more, so on the concatenation of PackMessage outputs
\* the reads return the (type, payload) pairs one by one, in order, and the
\* read after the last frame fails.
C9_FramesInOrder ==
  \A i \in 1..Len(got) :
    /\ got[i].err = "nil" =>
         got[i].after =
           Drop(got[i].before, Add(GoInt(4), ToInt(DeclaredLength(got[i].before))))
    /\ IF i <= Len(sent)
       THEN /\ got[i].err = "nil"
            /\ got[i].msg = sent[i].msg
            /\ BytesEqual(got[i].payload, sent[i].payload)
       ELSE got[i].err # "nil"

\* C10: frame layout.  PackMessage(m, p) is the little-endian int32 4 + len(p),
\* then the little-endian int32 m, then p unchanged: 8 + len(p) bytes, whose
\* length field read as an int32 is at least 4 and is len(p) + 4.
C10_FrameLayout ==
  op = "PackAndRead" =>
    /\ BLen(res.pkt.data) = Add(GoInt(8), BLen(arg.payload.data))
    /\ Take(Drop(res.pkt.data, GoInt(4)), GoInt(4)) = Lit(ToLE(arg.msg))
    /\ Drop(res.pkt.data, GoInt(8)) = arg.payload.data
    /\ ~Lt(DeclaredLength(res.pkt.data), Int32(4))
    /\ Sub(ToInt(DeclaredLength(res.pkt.data)), GoInt(4)) = BLen(arg.payload.data)

\* ------------------------------------------------------------------------
\* What holds of framing while the frame length fits an int32
\* ------------------------------------------------------------------------
\* 4 + len(p) <= 2^31 - 1.
FitsFrame(p) == ~Gt(BLen(p.data), GoInt(2147483643))

FrameRoundTripWithinInt32 ==
  op = "PackAndRead" /\ FitsFrame(arg.payload) =>
    /\ res.rd.err = "nil"
    /\ res.rd.msg = arg.msg
    /\ BytesEqual(res.rd.payload, arg.payload)
    /\ ~Lt(DeclaredLength(res.pkt.data), Int32(4))
    /\ Sub(ToInt(DeclaredLength(res.pkt.data)), GoInt(4)) = BLen(arg.payload.data)

FramesInOrderWithinInt32 ==
  (\A j \in 1..Len(sent) : FitsFrame(sent[j].payload)) => C9_FramesInOrder

EncodersReturnNoErrorWithinCap ==
  op = "FileAdvertTrip" /\ FitsString(arg.fileID) /\ FitsString(arg.name) =>
    \A i \in DOMAIN res.enc.discarded : res.enc.discarded[i] = "nil"
====
